---- MODULE Spec2Model ----
(***************************************************************************)
(* The floating-window chat client of agent_ui: the ChatWindow component   *)
(* (both prototype variants kept in ChatWindow.tsx), the Card / AgentCard  *)
(* components and the backend call of utils/api.ts.                        *)
(*                                                                         *)
(* React state is modelled as it behaves: a handler reads the values its   *)
(* closure captured at the last committed render (variable view) and       *)
(* writes the state through setters; functional setters (prev => ...)      *)
(* read the current state.  Handlers of React's discrete events (submit,   *)
(* click, mousedown, change) are followed by a synchronous re-render;      *)
(* updates made by native listeners (mousemove, mouseup) and by the        *)
(* continuation of an awaited promise are committed by a later Render.     *)
(***************************************************************************)
EXTENDS Integers, Sequences, FiniteSets, TLC

VARIABLES
    variant,        \* 1: first ChatWindow (Card), 2: second ChatWindow (AgentCard)
    mounted,        \* the mount effects have run
    viewport,       \* window.innerWidth / window.innerHeight
    cardOrigin,     \* where a card with position {0, 0} is laid out on the page
    now,            \* Date.now()
    input,          \* useState('')  input buffer
    messages,       \* useState<Message[]>([])  transcript
    cards,          \* useState<CardType[]>([]) / agentCards
    isTyping,       \* useState(false)  responding indicator
    zIndexCounter,  \* useState(1)
    position,       \* useState({x: 0, y: 0})  chat panel offset
    dimensions,     \* useState({width: 320, height: 500})
    isResizing,     \* useState(false)
    view,           \* the state values captured by the last committed render
    inflight,       \* awaited processInput calls, each with its captured closure
    pointer,        \* the mouse: button session, DraggableCore's lastX / lastY
    isEditing,      \* Card: useState(false), the cards (by index) being edited
    editableContent, \* Card: useState(content), the buffers that were edited
    scrollTop,      \* chatContainerRef.current.scrollTop
    showScrollButton, \* useState(false)
    scrollEvent,    \* a scroll event waits for its delivery
    scrolledFor,    \* the transcript length the [messages] effect has scrolled for
    nSub,           \* history: number of non-empty submissions
    calls,          \* history: number of backend calls made
    origin,         \* history: for each transcript entry, <<submission, item index>>
    zAssigned,      \* history: z-values assigned so far
    zDup,           \* history: some assignment received an already assigned z-value
    last            \* history: the handler that ran last

vars == <<variant, mounted, viewport, cardOrigin, now, input, messages, cards, isTyping,
          zIndexCounter, position, dimensions, isResizing, view, inflight,
          pointer, isEditing, editableContent, scrollTop, showScrollButton,
          scrollEvent, scrolledFor, nSub, calls, origin, zAssigned, zDup, last>>

-----------------------------------------------------------------------------
(* Bounds of the model *)

MaxItems == 2       \* most items in one backend response
MaxSubmits == 2     \* most non-empty submissions
MaxCards == 2       \* most cards
MaxNow == 1         \* last clock reading
MaxZ == 4           \* largest z-counter
MaxMoves == 2       \* most mouse moves
IdScale == 2        \* distinct values of Date.now() + Math.random() per millisecond
RandDenom == 2      \* Math.random() is drawn from {0, 1/RandDenom, ...}

\* input texts: empty, whitespace only, and text with surrounding whitespace
Texts == {<<>>, <<" ">>, <<" ", "a", " ">>}

Pt(x, y) == [x |-> x, y |-> y]

\* window sizes: a desktop, a tablet, and a phone whose 80% width is below 320
Desktop == [w |-> 1000, h |-> 1000]
Tablet == [w |-> 500, h |-> 600]
Phone == [w |-> 300, h |-> 600]
Viewports == {Desktop, Tablet, Phone}

\* page offsets of the cards' container: margin reset, browser default margin
Origins == {Pt(0, 0), Pt(8, 8)}

-----------------------------------------------------------------------------
(* Pure helpers *)

Max(S) == CHOOSE m \in S : \A n \in S : n <= m
Min2(a, b) == IF a <= b THEN a ELSE b
Max2(a, b) == IF a >= b THEN a ELSE b

RECURSIVE TrimStart(_)
TrimStart(s) == IF s # <<>> /\ Head(s) = " " THEN TrimStart(Tail(s)) ELSE s

RECURSIVE TrimEnd(_)
TrimEnd(s) == IF s # <<>> /\ s[Len(s)] = " "
              THEN TrimEnd(SubSeq(s, 1, Len(s) - 1)) ELSE s

\* a submit guard that forgets to trim
trimNone(s) == s

\* String.prototype.trim
trim(s) == TrimEnd(TrimStart(s))

Greeting == [content |-> <<"G">>, sender |-> "agent", type |-> "message"]

\* the items a response body can carry (api.ts Message: type is optional)
Items == {[content |-> <<"p">>, sender |-> "agent", type |-> "message"],
          [content |-> <<"q">>, sender |-> "agent", type |-> "card"],
          [content |-> <<"r">>, sender |-> "agent", type |-> "undefined"]}
Responses == UNION {[1..n -> Items] : n \in 0..MaxItems}

\* the responses whose items all carry a type
TypedResponses == {r \in Responses : \A i \in 1..Len(r) : r[i].type # "undefined"}

\* the draws a card spawn makes: clock advance, Math.random() for id, x, y
\* (Date.now() + Math.random() rounds to one of IdScale + 1 doubles)
Fracs == IF variant = 1 THEN {0} ELSE 0..IdScale
Rands == 0..(RandDenom - 1)
DrawSet(R) == [tick : 0..1, frac : Fracs, rx : R, ry : R]

\* the indices of the card items of a response
CardItems(items) == {i \in 1..Len(items) : items[i].type = "card"}

\* Math.random() * extent
Random(r, extent) == (r * extent) \div RandDenom

CardWidth == IF variant = 1 THEN 300 ELSE 400

\* id: Date.now()  /  id = Date.now() + Math.random()
NewId(t, frac) == IF variant = 1 THEN t ELSE t * IdScale + frac

newCard(t, d, content, z) ==
    [id |-> NewId(t, d.frac),
     content |-> content,
     position |-> [x |-> Random(d.rx, viewport.w - CardWidth),
                   y |-> Random(d.ry, viewport.h - 200)],
     zIndex |-> z]

\* what the current state would render
Snapshot(z, pos, dim, rs, cs) ==
    [zIndexCounter |-> z, position |-> pos, dimensions |-> dim,
     isResizing |-> rs, cards |-> cs]

\* the part of the state a response continuation updates
Acc == [messages |-> messages, origin |-> origin, cards |-> cards,
        zIndexCounter |-> zIndexCounter, zAssigned |-> zAssigned,
        zDup |-> zDup, now |-> now]

\* a spawn that leaves the z-counter as it is
spawnCardNoIncrement(st, content, d, z) ==
    [st EXCEPT !.cards = Append(@, newCard(st.now + d.tick, d, content, z)),
               !.zAssigned = @ \cup {z},
               !.zDup = @ \/ (z \in st.zAssigned),
               !.now = @ + d.tick]

\* setCards(prev => [...prev, newCard]); setZIndexCounter(prev => prev + 1)
spawnCard(st, content, d, z) ==
    [st EXCEPT !.cards = Append(@, newCard(st.now + d.tick, d, content, z)),
               !.zIndexCounter = @ + 1,
               !.zAssigned = @ \cup {z},
               !.zDup = @ \/ (z \in st.zAssigned),
               !.now = @ + d.tick]

\* an update that puts the new message first
appendMessageFirst(st, msg, sub, i) ==
    [st EXCEPT !.messages = <<msg>> \o @,
               !.origin = <<<<sub, i>>>> \o @]

\* an update that puts a response's odd items first and appends the even ones
appendMessageEnds(st, msg, sub, i) ==
    IF i % 2 = 1
    THEN [st EXCEPT !.messages = <<msg>> \o @, !.origin = <<<<sub, i>>>> \o @]
    ELSE [st EXCEPT !.messages = Append(@, msg), !.origin = Append(@, <<sub, i>>)]

\* an update that replaces the transcript by the new message
appendMessageOnly(st, msg, sub, i) ==
    [st EXCEPT !.messages = <<msg>>,
               !.origin = <<<<sub, i>>>>]

\* setMessages(prev => [...prev, msg])
appendMessage(st, msg, sub, i) ==
    [st EXCEPT !.messages = Append(@, msg),
               !.origin = Append(@, <<sub, i>>)]

\* first variant: response.messages.forEach(msg => card ? spawn : append)
RECURSIVE forEach1(_, _, _, _, _)
forEach1(st, items, i, c, rnd) ==
    IF i > Len(items) THEN st
    ELSE forEach1(IF items[i].type = "card"
                  THEN spawnCard(st, items[i].content, rnd[i], c.z)
                  ELSE appendMessage(st, items[i], c.sub, i),
                  items, i + 1, c, rnd)

\* second variant: response.messages.filter(msg => msg.type === 'message')
RECURSIVE filterMessages(_, _, _, _)
filterMessages(st, items, i, c) ==
    IF i > Len(items) THEN st
    ELSE filterMessages(IF items[i].type = "message"
                        THEN appendMessage(st, items[i], c.sub, i)
                        ELSE st,
                        items, i + 1, c)

\* second variant: response.messages.forEach(msg => if card then spawn)
RECURSIVE forEach2(_, _, _, _, _)
forEach2(st, items, i, c, rnd) ==
    IF i > Len(items) THEN st
    ELSE forEach2(IF items[i].type = "card"
                  THEN spawnCard(st, items[i].content, rnd[i], c.z)
                  ELSE st,
                  items, i + 1, c, rnd)

\* the updates a successful response makes
handleResponse(st, items, c, rnd) ==
    IF variant = 1 THEN forEach1(st, items, 1, c, rnd)
    ELSE forEach2(filterMessages(st, items, 1, c), items, 1, c, rnd)

-----------------------------------------------------------------------------
(* Initial state: the useState initial values, before the mount effects *)

Init ==
    /\ variant \in {1, 2}
    /\ mounted = FALSE
    /\ viewport \in Viewports
    /\ cardOrigin \in Origins
    /\ now = 0
    /\ input = <<>>
    /\ messages = <<>>
    /\ cards = <<>>
    /\ isTyping = FALSE
    /\ zIndexCounter = 1
    /\ position = Pt(0, 0)
    /\ dimensions = [width |-> 320, height |-> 500]
    /\ isResizing = FALSE
    /\ view = Snapshot(1, Pt(0, 0), [width |-> 320, height |-> 500], FALSE, <<>>)
    /\ inflight = {}
    /\ pointer = [mode |-> "idle", card |-> 0, last |-> Pt(0, 0), offset |-> Pt(0, 0),
                  startPtr |-> Pt(0, 0), startPos |-> Pt(0, 0), moves |-> 0]
    /\ isEditing = {}
    /\ editableContent = <<>>
    /\ scrollTop = 0
    /\ showScrollButton = FALSE
    /\ scrollEvent = FALSE
    /\ scrolledFor = 0
    /\ nSub = 0
    /\ calls = 0
    /\ origin = <<>>
    /\ zAssigned = {}
    /\ zDup = FALSE
    /\ last = [op |-> "init", id |-> 0, items |-> <<>>]

geom == <<position, dimensions, isResizing, pointer>>
hist == <<nSub, calls, origin, zAssigned, zDup>>
local == <<isEditing, editableContent>>
scroller == <<scrollTop, showScrollButton, scrollEvent, scrolledFor>>

-----------------------------------------------------------------------------
(* Chat panel operations *)

\* the mount effects: greeting; second variant also caps the dimensions
Mount ==
    /\ ~mounted
    /\ mounted' = TRUE
    /\ messages' = <<Greeting>>
    /\ origin' = <<<<0, 0>>>>
    /\ dimensions' =
         IF variant = 2
         THEN [width |-> Min2(dimensions.width, Min2((viewport.w * 4) \div 5, 800)),
               height |-> Min2(dimensions.height, Min2((viewport.h * 4) \div 5, 800))]
         ELSE dimensions
    /\ view' = Snapshot(zIndexCounter, position, dimensions', isResizing, cards)
    /\ last' = [op |-> "mount", id |-> 0, items |-> <<>>]
    /\ UNCHANGED <<variant, viewport, cardOrigin, now, input, cards, isTyping, zIndexCounter,
                   position, isResizing, inflight, pointer, nSub, calls,
                   zAssigned, zDup>>
    /\ UNCHANGED local
    /\ UNCHANGED scroller

\* onChange={(e) => setInput(e.target.value)}
SetInput(t) ==
    /\ mounted
    /\ input' = t
    /\ view' = Snapshot(zIndexCounter, position, dimensions, isResizing, cards)
    /\ last' = [op |-> "setInput", id |-> 0, items |-> <<>>]
    /\ UNCHANGED <<variant, mounted, viewport, cardOrigin, now, messages, cards, isTyping,
                   zIndexCounter, inflight>>
    /\ UNCHANGED geom
    /\ UNCHANGED hist
    /\ UNCHANGED local
    /\ UNCHANGED scroller

\* handleSubmit up to the await: the user message, the cleared buffer, the
\* indicator and the backend call, which keeps the closure of this render
handleSubmit ==
    /\ mounted
    /\ IF trim(input) = <<>>
       THEN /\ last' = [op |-> "submitEmpty", id |-> 0, items |-> <<>>]
            /\ UNCHANGED <<input, messages, isTyping, inflight, view>>
            /\ UNCHANGED hist
       ELSE /\ nSub < MaxSubmits
            /\ messages' = Append(messages, [content |-> input, sender |-> "user",
                                             type |-> "message"])
            /\ input' = <<>>
            /\ isTyping' = TRUE
            /\ inflight' = inflight \cup
                  {[sub |-> nSub + 1, input |-> input, z |-> view.zIndexCounter]}
            /\ nSub' = nSub + 1
            /\ calls' = calls + 1
            /\ origin' = Append(origin, <<nSub + 1, 0>>)
            /\ view' = Snapshot(zIndexCounter, position, dimensions, isResizing, cards)
            /\ last' = [op |-> "submit", id |-> nSub + 1, items |-> <<>>]
            /\ UNCHANGED <<zAssigned, zDup>>
    /\ UNCHANGED <<variant, mounted, viewport, cardOrigin, now, cards, zIndexCounter>>
    /\ UNCHANGED geom
    /\ UNCHANGED local
    /\ UNCHANGED scroller

\* the continuation of a call whose promise resolved with a body
\* {messages: items}: processInput never looks at the response status
Resolve(c, items, rnd) ==
    /\ c \in inflight
    /\ LET st == handleResponse(Acc, items, c, rnd) IN
        /\ Len(st.cards) <= MaxCards
        /\ st.zIndexCounter <= MaxZ
        /\ st.now <= MaxNow
        /\ messages' = st.messages
        /\ origin' = st.origin
        /\ cards' = st.cards
        /\ zIndexCounter' = st.zIndexCounter
        /\ zAssigned' = st.zAssigned
        /\ zDup' = st.zDup
        /\ now' = st.now
    /\ isTyping' = FALSE
    /\ inflight' = inflight \ {c}
    /\ last' = [op |-> "resolve", id |-> c.sub, items |-> items]
    /\ UNCHANGED <<variant, mounted, viewport, cardOrigin, input, view, nSub, calls>>
    /\ UNCHANGED geom
    /\ UNCHANGED local
    /\ UNCHANGED scroller

\* the backend answers with a non-success status and a JSON body
\* {messages: items}: fetch resolves on every status and processInput
\* returns response.json() without reading response.ok, so the continuation
\* is the one of a success
ResolveNonSuccess(c, items, rnd) ==
    /\ c \in inflight
    /\ LET st == handleResponse(Acc, items, c, rnd) IN
        /\ Len(st.cards) <= MaxCards
        /\ st.zIndexCounter <= MaxZ
        /\ st.now <= MaxNow
        /\ messages' = st.messages
        /\ origin' = st.origin
        /\ cards' = st.cards
        /\ zIndexCounter' = st.zIndexCounter
        /\ zAssigned' = st.zAssigned
        /\ zDup' = st.zDup
        /\ now' = st.now
    /\ isTyping' = FALSE
    /\ inflight' = inflight \ {c}
    /\ last' = [op |-> "nonSuccess", id |-> c.sub, items |-> items]
    /\ UNCHANGED <<variant, mounted, viewport, cardOrigin, input, view, nSub, calls>>
    /\ UNCHANGED geom
    /\ UNCHANGED local
    /\ UNCHANGED scroller

\* a failure path that leaves the responding indicator set
RejectKeepsTyping(c) ==
    /\ c \in inflight
    /\ inflight' = inflight \ {c}
    /\ last' = [op |-> "reject", id |-> c.sub, items |-> <<>>]
    /\ UNCHANGED <<variant, mounted, viewport, cardOrigin, now, input, messages,
                   cards, isTyping, zIndexCounter, view>>
    /\ UNCHANGED geom
    /\ UNCHANGED hist
    /\ UNCHANGED local
    /\ UNCHANGED scroller

\* a failure path that calls the backend again
RejectRetries(c) ==
    /\ c \in inflight
    /\ calls <= MaxSubmits
    /\ calls' = calls + 1
    /\ last' = [op |-> "reject", id |-> c.sub, items |-> <<>>]
    /\ UNCHANGED <<variant, mounted, viewport, cardOrigin, now, input, messages,
                   cards, isTyping, zIndexCounter, view, inflight>>
    /\ UNCHANGED <<nSub, origin, zAssigned, zDup>>
    /\ UNCHANGED geom
    /\ UNCHANGED local
    /\ UNCHANGED scroller

\* the continuation of a call whose promise rejected (fetch or json() failed)
Reject(c) ==
    /\ c \in inflight
    /\ isTyping' = FALSE
    /\ inflight' = inflight \ {c}
    /\ last' = [op |-> "reject", id |-> c.sub, items |-> <<>>]
    /\ UNCHANGED <<variant, mounted, viewport, cardOrigin, now, input, messages, cards,
                   zIndexCounter, view>>
    /\ UNCHANGED geom
    /\ UNCHANGED hist
    /\ UNCHANGED local
    /\ UNCHANGED scroller

\* a card's onMouseDown: the z-value is the counter this render captured
handleBringToFront(id) ==
    /\ mounted
    /\ \E i \in 1..Len(view.cards) : view.cards[i].id = id
    /\ zIndexCounter < MaxZ
    /\ zIndexCounter' = zIndexCounter + 1
    /\ cards' = [i \in 1..Len(cards) |->
                   IF cards[i].id = id
                   THEN [cards[i] EXCEPT !.zIndex = view.zIndexCounter]
                   ELSE cards[i]]
    /\ zAssigned' = zAssigned \cup {view.zIndexCounter}
    /\ zDup' = (zDup \/ view.zIndexCounter \in zAssigned)
    /\ view' = Snapshot(zIndexCounter', position, dimensions, isResizing, cards')
    /\ last' = [op |-> "bringToFront", id |-> id, items |-> <<>>]
    /\ UNCHANGED <<variant, mounted, viewport, cardOrigin, now, input, messages, isTyping,
                   inflight, nSub, calls, origin>>
    /\ UNCHANGED geom
    /\ UNCHANGED local
    /\ UNCHANGED scroller

\* first variant: the Add Card button
addNewCard(d) ==
    /\ mounted
    /\ variant = 1
    /\ LET st == spawnCard(Acc, <<"N">>, d, view.zIndexCounter) IN
        /\ Len(st.cards) <= MaxCards
        /\ st.zIndexCounter <= MaxZ
        /\ st.now <= MaxNow
        /\ cards' = st.cards
        /\ zIndexCounter' = st.zIndexCounter
        /\ zAssigned' = st.zAssigned
        /\ zDup' = st.zDup
        /\ now' = st.now
    /\ view' = Snapshot(zIndexCounter', position, dimensions, isResizing, cards')
    /\ last' = [op |-> "addNewCard", id |-> cards'[Len(cards')].id, items |-> <<>>]
    /\ UNCHANGED <<variant, mounted, viewport, cardOrigin, input, messages, isTyping,
                   inflight, nSub, calls, origin>>
    /\ UNCHANGED geom
    /\ UNCHANGED local
    /\ UNCHANGED scroller

\* the clock advances
Tick ==
    /\ now < MaxNow
    /\ now' = now + 1
    /\ last' = [op |-> "tick", id |-> 0, items |-> <<>>]
    /\ UNCHANGED <<variant, mounted, viewport, cardOrigin, input, messages, cards, isTyping,
                   zIndexCounter, view, inflight>>
    /\ UNCHANGED geom
    /\ UNCHANGED hist
    /\ UNCHANGED local
    /\ UNCHANGED scroller

\* React commits the pending updates: the handlers now close over the state
Render ==
    /\ view # Snapshot(zIndexCounter, position, dimensions, isResizing, cards)
    /\ view' = Snapshot(zIndexCounter, position, dimensions, isResizing, cards)
    /\ last' = [op |-> "render", id |-> 0, items |-> <<>>]
    /\ UNCHANGED <<variant, mounted, viewport, cardOrigin, now, input, messages, cards,
                   isTyping, zIndexCounter, inflight>>
    /\ UNCHANGED geom
    /\ UNCHANGED hist
    /\ UNCHANGED local
    /\ UNCHANGED scroller

-----------------------------------------------------------------------------

(* Geometry: the mouse, dragging and resizing *)

MinWidth == 320
MinHeight == 400

\* window.innerWidth * 0.8 (the window sizes are multiples of 5)
maxWidth == (viewport.w * 4) \div 5
maxHeight == (viewport.h * 4) \div 5

\* the box the browser lays out for the rendered chat panel: the second
\* variant styles width / minWidth 320px / maxWidth 80vw, the first w-[320px]
usedWidth ==
    IF variant = 1 THEN 320
    ELSE Max2(MinWidth, Min2(view.dimensions.width, maxWidth))
usedHeight ==
    IF variant = 1 THEN 500
    ELSE Max2(MinHeight, Min2(view.dimensions.height, maxHeight))

\* getBoundingClientRect() of the chat panel: fixed, right 20px, bottom 20px,
\* translated by the rendered position
chatRect ==
    [left |-> viewport.w - 20 - usedWidth + view.position.x,
     top |-> viewport.h - 20 - usedHeight + view.position.y]

\* getBoundingClientRect() of the rendered card i
cardRect(i) ==
    [left |-> cardOrigin.x + view.cards[i].position.x,
     top |-> cardOrigin.y + view.cards[i].position.y]

\* a resize that forgets the upper bound
handleResizeNoMax(p) ==
    [width |-> Max2(p.x - chatRect.left, MinWidth),
     height |-> Max2(p.y - chatRect.top, MinHeight)]

\* handleResize: the new dimensions for a mouse event at p
handleResize(p) ==
    [width |-> Min2(Max2(p.x - chatRect.left, MinWidth), maxWidth),
     height |-> Min2(Max2(p.y - chatRect.top, MinHeight), maxHeight)]

\* handlePositionChange / handleCardPosition
handleCardPosition(cs, id, newPosition) ==
    [i \in 1..Len(cs) |->
        IF cs[i].id = id THEN [cs[i] EXCEPT !.position = newPosition] ELSE cs[i]]

\* Card.handleDrag: data minus the offset of handleStart; AgentCard.handleDrag: data
cardDragPosition(data) ==
    IF variant = 1
    THEN Pt(data.x - pointer.offset.x, data.y - pointer.offset.y)
    ELSE data

\* the user resizes the browser window; the component registers no handler
ViewportResize(v) ==
    /\ mounted
    /\ v # viewport
    /\ viewport' = v
    /\ last' = [op |-> "viewport", id |-> 0, items |-> <<>>]
    /\ UNCHANGED <<variant, mounted, cardOrigin, now, input, messages, cards,
                   isTyping, zIndexCounter, view, inflight>>
    /\ UNCHANGED geom
    /\ UNCHANGED hist
    /\ UNCHANGED local
    /\ UNCHANGED scroller

\* mousedown on the header of the chat panel: DraggableCore starts a session
ChatDragStart(g) ==
    /\ mounted
    /\ pointer.mode = "idle"
    /\ pointer' = [pointer EXCEPT
                     !.mode = "chatDrag",
                     !.card = 0,
                     !.last = Pt(chatRect.left + g.x, chatRect.top + g.y),
                     !.startPtr = Pt(chatRect.left + g.x, chatRect.top + g.y),
                     !.startPos = position]
    /\ last' = [op |-> "dragStart", id |-> 0, items |-> <<>>]
    /\ UNCHANGED <<variant, mounted, viewport, cardOrigin, now, input, messages,
                   cards, isTyping, zIndexCounter, position, dimensions,
                   isResizing, view, inflight>>
    /\ UNCHANGED hist
    /\ UNCHANGED local
    /\ UNCHANGED scroller

\* mousedown on the rendered card i at g from its corner: DraggableCore
\* starts a session; Card.handleStart keeps data - rect as the offset
CardDragStart(i, g) ==
    /\ mounted
    /\ pointer.mode = "idle"
    /\ i \in 1..Len(view.cards)
    /\ LET data == Pt(cardRect(i).left + g.x, cardRect(i).top + g.y) IN
        pointer' = [pointer EXCEPT
                      !.mode = "cardDrag",
                      !.card = i,
                      !.last = data,
                      !.offset = IF variant = 1
                                 THEN Pt(data.x - cardRect(i).left, data.y - cardRect(i).top)
                                 ELSE @,
                      !.startPtr = data,
                      !.startPos = cards[i].position]
    /\ last' = [op |-> "dragStart", id |-> view.cards[i].id, items |-> <<>>]
    /\ UNCHANGED <<variant, mounted, viewport, cardOrigin, now, input, messages,
                   cards, isTyping, zIndexCounter, position, dimensions,
                   isResizing, view, inflight>>
    /\ UNCHANGED hist
    /\ UNCHANGED local
    /\ UNCHANGED scroller

\* mousedown on the resize handle in the corner of the chat panel
ResizeStart ==
    /\ mounted
    /\ variant = 2
    /\ pointer.mode = "idle"
    /\ isResizing' = TRUE
    /\ pointer' = [pointer EXCEPT
                     !.mode = "resize",
                     !.card = 0,
                     !.last = Pt(chatRect.left + usedWidth, chatRect.top + usedHeight)]
    /\ view' = Snapshot(zIndexCounter, position, dimensions, TRUE, cards)
    /\ last' = [op |-> "resizeStart", id |-> 0, items |-> <<>>]
    /\ UNCHANGED <<variant, mounted, viewport, cardOrigin, now, input, messages,
                   cards, isTyping, zIndexCounter, position, dimensions, inflight>>
    /\ UNCHANGED hist
    /\ UNCHANGED local
    /\ UNCHANGED scroller

\* a mousemove by d: DraggableCore's onDrag of the running session, and the
\* document listener of the second variant, which resizes while the render
\* it belongs to has isResizing set
MouseMove(d) ==
    /\ mounted
    /\ pointer.moves < MaxMoves
    /\ LET p == Pt(pointer.last.x + d.x, pointer.last.y + d.y) IN
        /\ pointer' = [pointer EXCEPT !.last = p, !.moves = @ + 1]
        /\ position' =
             IF pointer.mode = "chatDrag"
             THEN Pt(view.position.x + d.x, view.position.y + d.y)
             ELSE position
        /\ cards' =
             IF pointer.mode = "cardDrag"
             THEN handleCardPosition(cards, view.cards[pointer.card].id,
                                     cardDragPosition(p))
             ELSE cards
        /\ dimensions' =
             IF variant = 2 /\ view.isResizing THEN handleResize(p) ELSE dimensions
    /\ last' = [op |-> "mouseMove", id |-> 0, items |-> <<>>]
    /\ UNCHANGED <<variant, mounted, viewport, cardOrigin, now, input, messages,
                   isTyping, zIndexCounter, isResizing, view, inflight>>
    /\ UNCHANGED hist
    /\ UNCHANGED local
    /\ UNCHANGED scroller

\* a release that leaves isResizing set
MouseUpKeepsResizing ==
    /\ mounted
    /\ pointer.mode # "idle"
    /\ pointer' = [pointer EXCEPT !.mode = "idle", !.card = 0]
    /\ last' = [op |-> "mouseUp", id |-> 0, items |-> <<>>]
    /\ UNCHANGED <<variant, mounted, viewport, cardOrigin, now, input, messages,
                   cards, isTyping, zIndexCounter, position, dimensions,
                   isResizing, view, inflight>>
    /\ UNCHANGED hist
    /\ UNCHANGED local
    /\ UNCHANGED scroller

\* mouseup: DraggableCore ends its session; the document listener of the
\* second variant clears isResizing
MouseUp ==
    /\ mounted
    /\ pointer.mode # "idle"
    /\ pointer' = [pointer EXCEPT !.mode = "idle", !.card = 0]
    /\ isResizing' = FALSE
    /\ view' = IF variant = 2
               THEN Snapshot(zIndexCounter, position, dimensions, FALSE, cards)
               ELSE view
    /\ last' = [op |-> "mouseUp", id |-> 0, items |-> <<>>]
    /\ UNCHANGED <<variant, mounted, viewport, cardOrigin, now, input, messages,
                   cards, isTyping, zIndexCounter, position, dimensions, inflight>>
    /\ UNCHANGED hist
    /\ UNCHANGED local
    /\ UNCHANGED scroller

-----------------------------------------------------------------------------
(* Card: inline editing (first variant; AgentCard has no edit affordance) *)

\* the texts typed into a card's textarea
EditTexts == {<<"e">>}

\* the Card's editableContent: useState(content) until handleChange sets it
editableContentOf(i) ==
    IF i \in DOMAIN editableContent THEN editableContent[i] ELSE cards[i].content

\* click on the edit icon of the rendered card i
handleEditClick(i) ==
    /\ mounted
    /\ variant = 1
    /\ i \in 1..Len(view.cards)
    /\ isEditing' = isEditing \cup {i}
    /\ last' = [op |-> "editClick", id |-> i, items |-> <<>>]
    /\ UNCHANGED <<variant, mounted, viewport, cardOrigin, now, input, messages,
                   cards, isTyping, zIndexCounter, view, inflight, editableContent>>
    /\ UNCHANGED geom
    /\ UNCHANGED hist
    /\ UNCHANGED scroller

\* the textarea of card i, rendered while the card is edited, changes to t
handleChange(i, t) ==
    /\ i \in isEditing
    /\ editableContent' = (i :> t) @@ editableContent
    /\ last' = [op |-> "editChange", id |-> i, items |-> <<>>]
    /\ UNCHANGED <<variant, mounted, viewport, cardOrigin, now, input, messages,
                   cards, isTyping, zIndexCounter, view, inflight, isEditing>>
    /\ UNCHANGED geom
    /\ UNCHANGED hist
    /\ UNCHANGED scroller

\* the textarea of card i loses the focus
handleBlur(i) ==
    /\ i \in isEditing
    /\ isEditing' = isEditing \ {i}
    /\ last' = [op |-> "editBlur", id |-> i, items |-> <<>>]
    /\ UNCHANGED <<variant, mounted, viewport, cardOrigin, now, input, messages,
                   cards, isTyping, zIndexCounter, view, inflight, editableContent>>
    /\ UNCHANGED geom
    /\ UNCHANGED hist
    /\ UNCHANGED scroller

-----------------------------------------------------------------------------
(* Second variant: the scrolling transcript and the jump-to-latest button. *)
(* The layout is the one of the rendered state; a smooth scroll is taken   *)
(* at the position where it ends.                                          *)

\* rendered lines of a message: the greeting, an agent's answer, a user's line
LineCount(content) ==
    IF content = <<"G">> THEN 6 ELSE IF content = <<"p">> THEN 8 ELSE 1

\* px-3 py-2 around lines of 24px, and the space-y-2 gap below the row
rowHeight(m) == 24 * LineCount(m.content) + 16 + 8

RECURSIVE rowsHeight(_)
rowsHeight(ms) == IF ms = <<>> THEN 0 ELSE rowHeight(Head(ms)) + rowsHeight(Tail(ms))

\* the container's box: the panel without its header and its form, capped
\* by maxHeight: calc(dimensions.height - 110px)
clientHeight == Min2(usedHeight - 115, view.dimensions.height - 110)

\* p-3, the message rows and the Typing... row
contentHeight == 24 + rowsHeight(messages) + (IF isTyping THEN 48 ELSE 0)

scrollHeight == Max2(contentHeight, clientHeight)

maxScrollTop == scrollHeight - clientHeight

\* scrollHeight - scrollTop - clientHeight, the distance from the bottom
fromBottom == scrollHeight - Min2(scrollTop, maxScrollTop) - clientHeight

\* the effect on [messages]: messagesEndRef.current?.scrollIntoView()
scrollIntoView ==
    /\ mounted
    /\ variant = 2
    /\ scrolledFor # Len(messages)
    /\ scrolledFor' = Len(messages)
    /\ scrollTop' = maxScrollTop
    /\ scrollEvent' = (scrollEvent \/ scrollTop' # scrollTop)
    /\ last' = [op |-> "scrollIntoView", id |-> 0, items |-> <<>>]
    /\ UNCHANGED <<variant, mounted, viewport, cardOrigin, now, input, messages,
                   cards, isTyping, zIndexCounter, view, inflight, showScrollButton>>
    /\ UNCHANGED geom
    /\ UNCHANGED hist
    /\ UNCHANGED local

\* the user scrolls the transcript to y
UserScroll(y) ==
    /\ mounted
    /\ variant = 2
    /\ y \in 0..maxScrollTop
    /\ y # scrollTop
    /\ scrollTop' = y
    /\ scrollEvent' = TRUE
    /\ last' = [op |-> "userScroll", id |-> 0, items |-> <<>>]
    /\ UNCHANGED <<variant, mounted, viewport, cardOrigin, now, input, messages,
                   cards, isTyping, zIndexCounter, view, inflight, showScrollButton,
                   scrolledFor>>
    /\ UNCHANGED geom
    /\ UNCHANGED hist
    /\ UNCHANGED local

\* onScroll: the scroll event is delivered
handleScroll ==
    /\ scrollEvent
    /\ scrollEvent' = FALSE
    /\ showScrollButton' = (fromBottom > 100)
    /\ last' = [op |-> "scroll", id |-> 0, items |-> <<>>]
    /\ UNCHANGED <<variant, mounted, viewport, cardOrigin, now, input, messages,
                   cards, isTyping, zIndexCounter, view, inflight, scrollTop,
                   scrolledFor>>
    /\ UNCHANGED geom
    /\ UNCHANGED hist
    /\ UNCHANGED local

\* click on the jump-to-latest button, rendered while showScrollButton
scrollToBottom ==
    /\ showScrollButton
    /\ scrollTop' = maxScrollTop
    /\ scrollEvent' = (scrollEvent \/ scrollTop' # scrollTop)
    /\ last' = [op |-> "scrollToBottom", id |-> 0, items |-> <<>>]
    /\ UNCHANGED <<variant, mounted, viewport, cardOrigin, now, input, messages,
                   cards, isTyping, zIndexCounter, view, inflight, showScrollButton,
                   scrolledFor>>
    /\ UNCHANGED geom
    /\ UNCHANGED hist
    /\ UNCHANGED local

-----------------------------------------------------------------------------
(* The transcript: submissions, responses and failures.  The card draws   *)
(* are fixed here, the z-order and the ids are explored under SpecZ.       *)

NoDraw == [tick : {0}, frac : {0}, rx : {0}, ry : {0}]

Next ==
    \/ Mount
    \/ \E t \in Texts : SetInput(t)
    \/ handleSubmit
    \/ \E c \in inflight, items \in TypedResponses :
         \E rnd \in [CardItems(items) -> NoDraw] : Resolve(c, items, rnd)
    \/ \E c \in inflight : Reject(c)
    \/ Render

InitDesktop == Init /\ viewport = Desktop /\ cardOrigin = Pt(0, 0)

Spec == InitDesktop /\ [][Next]_vars

(* The same with every response the declared item type allows, items       *)
(* without a type included.                                                *)

NextItems ==
    \/ Mount
    \/ \E t \in Texts : SetInput(t)
    \/ handleSubmit
    \/ \E c \in inflight, items \in Responses :
         \E rnd \in [CardItems(items) -> NoDraw] : Resolve(c, items, rnd)
    \/ \E c \in inflight : Reject(c)
    \/ Render

SpecItems == InitDesktop /\ [][NextItems]_vars

(* The backend also answers with a non-success status; a body that is not  *)
(* JSON or has no messages array ends in the catch, as a rejection does.   *)

NextStatus ==
    \/ Mount
    \/ \E t \in Texts : SetInput(t)
    \/ handleSubmit
    \/ \E c \in inflight, items \in TypedResponses :
         \E rnd \in [CardItems(items) -> NoDraw] : Resolve(c, items, rnd)
    \/ \E c \in inflight, items \in TypedResponses :
         \E rnd \in [CardItems(items) -> NoDraw] : ResolveNonSuccess(c, items, rnd)
    \/ \E c \in inflight : Reject(c)
    \/ Render

SpecStatus == InitDesktop /\ [][NextStatus]_vars

(* The z-order and the card ids: responses that carry cards, the Add Card  *)
(* button, bring-to-front and the clock.                                   *)

CardResponses == UNION {[1..n -> {[content |-> <<"p">>, sender |-> "agent",
                                    type |-> "card"]}] : n \in 1..MaxItems}

NextZ ==
    \/ Mount
    \/ SetInput(<<" ", "a", " ">>)
    \/ handleSubmit
    \/ \E c \in inflight, items \in CardResponses :
         \E rnd \in [CardItems(items) -> DrawSet({0})] : Resolve(c, items, rnd)
    \/ \E i \in 1..Len(view.cards) : handleBringToFront(view.cards[i].id)
    \/ \E d \in DrawSet({0}) : addNewCard(d)
    \/ Tick
    \/ Render

SpecZ == InitDesktop /\ [][NextZ]_vars

(* The z-counter against the cards' z-values: the same operations, the     *)
(* cards' places and id fractions fixed.                                   *)

ClockDraw == [tick : 0..1, frac : {0}, rx : {0}, ry : {0}]

NextCounter ==
    \/ Mount
    \/ SetInput(<<" ", "a", " ">>)
    \/ handleSubmit
    \/ \E c \in inflight, items \in CardResponses :
         \E rnd \in [CardItems(items) -> ClockDraw] : Resolve(c, items, rnd)
    \/ \E i \in 1..Len(view.cards) : handleBringToFront(view.cards[i].id)
    \/ \E d \in ClockDraw : addNewCard(d)
    \/ Render

SpecCounter == InitDesktop /\ [][NextCounter]_vars

(* Resizing: the window changes size, the panel is dragged and resized.   *)

Grabs == {Pt(10, 10)}
ResizeMoves == {Pt(300, 200), Pt(-2000, 3000), Pt(3000, -2000)}

\* windows on which 80% of the size is at least the minimum size
NextGeom ==
    \/ Mount
    \/ \E v \in {Desktop, Tablet} : ViewportResize(v)
    \/ \E g \in Grabs : ChatDragStart(g)
    \/ ResizeStart
    \/ \E d \in ResizeMoves : MouseMove(d)
    \/ MouseUp
    \/ Render

InitGeom == Init /\ variant = 2 /\ viewport \in {Desktop, Tablet} /\ cardOrigin = Pt(0, 0)

SpecGeom == InitGeom /\ [][NextGeom]_vars

\* every window, the phone included
NextResize ==
    \/ Mount
    \/ \E v \in Viewports : ViewportResize(v)
    \/ \E g \in Grabs : ChatDragStart(g)
    \/ ResizeStart
    \/ \E d \in ResizeMoves : MouseMove(d)
    \/ MouseUp
    \/ Render

InitResize == Init /\ variant = 2 /\ cardOrigin = Pt(0, 0)

SpecResize == InitResize /\ [][NextResize]_vars

(* Dragging: cards are spawned, the chat panel and the cards are dragged.  *)

DragMoves == {Pt(5, 0), Pt(-3, 7)}
OneCard == {<<[content |-> <<"p">>, sender |-> "agent", type |-> "card"]>>}
PlaceDraw == [tick : {1}, frac : {0}, rx : Rands, ry : {0}]

NextDrag ==
    \/ Mount
    \/ SetInput(<<" ", "a", " ">>)
    \/ handleSubmit
    \/ \E c \in inflight, items \in OneCard :
         \E rnd \in [CardItems(items) -> PlaceDraw] : Resolve(c, items, rnd)
    \/ \E d \in PlaceDraw : addNewCard(d)
    \/ \E g \in Grabs : ChatDragStart(g)
    \/ \E i \in 1..Len(view.cards), g \in Grabs : CardDragStart(i, g)
    \/ \E d \in DragMoves : MouseMove(d)
    \/ MouseUp
    \/ Render

SpecDrag == InitDesktop /\ [][NextDrag]_vars

(* A card on any page layout, dragged to and fro.                          *)

CardMoves == {Pt(5, 0), Pt(-5, 0)}

NextCardDrag ==
    \/ Mount
    \/ SetInput(<<" ", "a", " ">>)
    \/ handleSubmit
    \/ \E c \in inflight, items \in OneCard :
         \E rnd \in [CardItems(items) -> PlaceDraw] : Resolve(c, items, rnd)
    \/ \E i \in 1..Len(view.cards), g \in Grabs : CardDragStart(i, g)
    \/ \E d \in CardMoves : MouseMove(d)
    \/ MouseUp
    \/ Render

InitCardDrag == Init /\ viewport = Desktop

SpecCardDrag == InitCardDrag /\ [][NextCardDrag]_vars

(* A card that is edited.                                                  *)

NextEdit ==
    \/ Mount
    \/ SetInput(<<" ", "a", " ">>)
    \/ handleSubmit
    \/ \E c \in inflight, items \in OneCard :
         \E rnd \in [CardItems(items) -> PlaceDraw] : Resolve(c, items, rnd)
    \/ \E i \in 1..Len(view.cards) : handleEditClick(i)
    \/ \E i \in isEditing, t \in EditTexts : handleChange(i, t)
    \/ \E i \in isEditing : handleBlur(i)
    \/ Render

SpecEdit == InitDesktop /\ [][NextEdit]_vars

(* Cards that are brought to front and dragged.                            *)

\* cards spawned within one clock reading
FrameDraw == [tick : {0}, frac : Fracs, rx : {0}, ry : {0}]

NextFrame ==
    \/ Mount
    \/ SetInput(<<" ", "a", " ">>)
    \/ handleSubmit
    \/ \E c \in inflight, items \in CardResponses :
         \E rnd \in [CardItems(items) -> FrameDraw] : Resolve(c, items, rnd)
    \/ \E i \in 1..Len(view.cards) : handleBringToFront(view.cards[i].id)
    \/ \E i \in 1..Len(view.cards), g \in Grabs : CardDragStart(i, g)
    \/ MouseMove(Pt(5, 0))
    \/ MouseUp
    \/ Render

SpecFrame == InitDesktop /\ [][NextFrame]_vars

(* The transcript grows and is scrolled.                                   *)

MessageResponses == UNION {[1..n -> {[content |-> <<"p">>, sender |-> "agent",
                                       type |-> "message"]}] : n \in 1..MaxItems}

\* the top, a little above the bottom, the bottom
ScrollTargets == {0, maxScrollTop - 50, maxScrollTop}

NextScroll ==
    \/ Mount
    \/ SetInput(<<" ", "a", " ">>)
    \/ handleSubmit
    \/ \E c \in inflight, items \in MessageResponses :
         \E rnd \in [CardItems(items) -> NoDraw] : Resolve(c, items, rnd)
    \/ scrollIntoView
    \/ \E y \in ScrollTargets : UserScroll(y)
    \/ handleScroll
    \/ scrollToBottom

InitScroll == InitDesktop /\ variant = 2

SpecScroll == InitScroll /\ [][NextScroll]_vars

-----------------------------------------------------------------------------
(* Properties *)

MaxAssigned == IF zAssigned = {} THEN 0 ELSE Max(zAssigned)

\* C1: every bring-to-front call strictly increases the maximum z-value
\* assigned so far, and right after the call the panel brought to front has
\* a z-value greater than or equal to that of every other panel.
C1_BringToFrontRaisesMax ==
    [][last'.op = "bringToFront" =>
        /\ MaxAssigned' > MaxAssigned
        /\ \A i, j \in 1..Len(cards') :
              cards'[i].id = last'.id => cards'[i].zIndex >= cards'[j].zIndex]_vars

\* C2: a card spawned by a response has a z-value strictly greater than that
\* of every panel that existed before its spawn, earlier cards of the same
\* response included.
C2_SpawnedCardOnTop ==
    [][last'.op = "resolve" =>
        \A k \in (Len(cards) + 1)..Len(cards') :
            \A j \in 1..(k - 1) : cards'[k].zIndex > cards'[j].zIndex]_vars

\* C3: the message items of a response stand in the transcript in the order
\* the backend returned them, each after the user message of its submission.
C3_TranscriptOrder ==
    /\ Len(origin) = Len(messages)
    /\ \A k \in 1..Len(messages) :
          /\ (origin[k][1] > 0 /\ origin[k][2] = 0) => messages[k].sender = "user"
          /\ origin[k][2] > 0 =>
                \E j \in 1..(k - 1) : origin[j] = <<origin[k][1], 0>>
    /\ \A j, k \in 1..Len(messages) :
          (j < k /\ origin[j][1] = origin[k][1]) => origin[j][2] < origin[k][2]

\* two submissions overlapped, the second was answered first, and a response
\* with two message items is in the transcript
C3_Witness ==
    \E j, k \in 1..Len(messages) :
        /\ j + 1 < k
        /\ origin[j] = <<2, 1>>
        /\ origin[j + 1] = <<2, 2>>
        /\ origin[k] = <<1, 2>>

\* C4: when the backend call rejects, the transcript keeps the user's message
\* and is otherwise unchanged, the responding indicator is false, no card is
\* created, and the component still takes input.
C4_RejectKeepsTranscript ==
    /\ [][last'.op = "reject" =>
            /\ messages' = messages
            /\ \E k \in 1..Len(messages') :
                  /\ origin'[k] = <<last'.id, 0>>
                  /\ messages'[k].sender = "user"
                  /\ trim(messages'[k].content) # <<>>
            /\ isTyping' = FALSE
            /\ cards' = cards]_vars
    /\ [](last.op = "reject" => \A t \in Texts : ENABLED SetInput(t))

\* a call was rejected while another one is still awaited
C4_Witness == last.op = "reject" /\ inflight # {} /\ ~isTyping

IsBlank(s) == \A i \in 1..Len(s) : s[i] = " "

\* C5: submitting an empty or whitespace-only buffer changes neither the
\* transcript, the buffer, the responding indicator nor the cards, and makes
\* no backend call.
C5_EmptySubmitNoOp ==
    [][(last'.op \in {"submit", "submitEmpty"} /\ IsBlank(input)) =>
          UNCHANGED <<messages, input, isTyping, cards, calls, inflight>>]_vars

\* a whitespace-only buffer was submitted while a call is awaited
C5_Witness == last.op = "submitEmpty" /\ input = <<" ">> /\ isTyping

CardContents(items) ==
    [k \in 1..Len(SelectSeq(items, LAMBDA m : m.type = "card")) |->
        SelectSeq(items, LAMBDA m : m.type = "card")[k].content]

\* C8: a response appends each item of type message once and spawns no card
\* for it, spawns one card with the item's content for each item of type
\* card without appending it, and drops no item.
C8_EveryItemHandled ==
    [][last'.op = "resolve" =>
        LET items == last'.items
            added == (Len(messages) + 1)..Len(messages')
            spawned == [k \in 1..(Len(cards') - Len(cards)) |->
                           cards'[Len(cards) + k].content]
        IN  /\ \A i \in 1..Len(items) :
                 /\ items[i].type = "message" =>
                       Cardinality({k \in added : origin'[k] = <<last'.id, i>>
                                                   /\ messages'[k] = items[i]}) = 1
                 /\ items[i].type = "card" =>
                       \A k \in added : origin'[k] # <<last'.id, i>>
            /\ spawned = CardContents(items)
            /\ Cardinality(added) + Len(spawned) = Len(items)]_vars

\* C9: all cards have pairwise distinct ids.
C9_DistinctIds ==
    \A i, j \in 1..Len(cards) : i # j => cards[i].id # cards[j].id

\* C6: every width and height a resize produces lies within [min, max] of
\* the current window on each axis, whatever the pointer position and the
\* window size.
C6_ResizeWithinBounds ==
    [][(last'.op = "mouseMove" /\ variant = 2 /\ view.isResizing) =>
          /\ MinWidth <= dimensions'.width /\ dimensions'.width <= maxWidth'
          /\ MinHeight <= dimensions'.height /\ dimensions'.height <= maxHeight']_vars

Clamped(v, lo, hi) == IF hi < lo THEN v = hi ELSE lo <= v /\ v <= hi

\* C6 as amended: on each axis the result lies within [min, max] when the
\* window leaves max >= min, and equals max when max is below min.
C6_ResizeClamped ==
    [][(last'.op = "mouseMove" /\ variant = 2 /\ view.isResizing) =>
          /\ Clamped(dimensions'.width, MinWidth, maxWidth')
          /\ Clamped(dimensions'.height, MinHeight, maxHeight')]_vars

\* a resize on the phone with the pointer outside the window
C6_Witness ==
    /\ last.op = "mouseMove" /\ view.isResizing /\ pointer.mode = "resize"
    /\ viewport = Phone
    /\ pointer.last.x > viewport.w
    /\ dimensions = [width |-> 240, height |-> MinHeight]

\* C7: while a panel is dragged, its position is the position it had at the
\* start of the drag plus the sum of the pointer deltas since.
C7_DragAddsDeltas ==
    /\ pointer.mode = "chatDrag" =>
          position = Pt(pointer.startPos.x + pointer.last.x - pointer.startPtr.x,
                        pointer.startPos.y + pointer.last.y - pointer.startPtr.y)
    /\ pointer.mode = "cardDrag" =>
          cards[pointer.card].position =
              Pt(pointer.startPos.x + pointer.last.x - pointer.startPtr.x,
                 pointer.startPos.y + pointer.last.y - pointer.startPtr.y)

\* C10: once mounted, the chat panel's width and height lie within the
\* bounds of the current window.
C10_DimensionsWithinBounds ==
    (mounted /\ variant = 2) =>
        /\ MinWidth <= dimensions.width /\ dimensions.width <= maxWidth
        /\ MinHeight <= dimensions.height /\ dimensions.height <= maxHeight

\* C11: when the backend answers with a non-success status, the responding
\* indicator is cleared, nothing is appended to the transcript and no card is
\* created, whatever body the response carries.
C11_NonSuccessIsNetworkError ==
    [][last'.op = "nonSuccess" =>
          /\ isTyping' = FALSE
          /\ messages' = messages
          /\ cards' = cards]_vars

UserMessages == {k \in 1..Len(messages) : messages[k].sender = "user"}

\* C12: the number of backend calls equals the number of non-empty
\* submissions (the user messages of the transcript), a failed call included,
\* and every call carries the text its submission took from the input buffer.
C12_OneCallPerSubmission ==
    /\ calls = Cardinality(UserMessages)
    /\ Cardinality(inflight) <= calls
    /\ \A c \in inflight :
          \E k \in UserMessages : origin[k] = <<c.sub, 0>> /\ messages[k].content = c.input

\* one call failed and the call of a later submission is awaited
C12_Witness ==
    /\ last.op = "reject" /\ last.id = 1
    /\ calls = 2
    /\ \E c \in inflight : c.sub = 2 /\ c.input = <<" ", "a", " ">>

\* C13: no two z-value assignments (card spawn or bring-to-front) receive the
\* same z-value, and no two panels hold equal z-values.
C13_AtomicZAssignment ==
    /\ ~zDup
    /\ \A i, j \in 1..Len(cards) : i # j => cards[i].zIndex # cards[j].zIndex

\* C14: the responding indicator is true exactly while at least one backend
\* call awaits its result.
C14_IndicatorWhileAwaiting ==
    isTyping <=> (inflight # {})

\* C15: a drag event at the pointer position of the drag start leaves the
\* dragged card where it was when the drag started, for every card position
\* and every layout origin.
C15_CardDragNoJump ==
    [][(last'.op = "mouseMove" /\ pointer.mode = "cardDrag"
            /\ pointer'.last = pointer.startPtr) =>
          cards'[pointer.card].position = pointer.startPos]_vars

\* C16: a card goes from Viewing to Editing only on the edit action and from
\* Editing to Viewing only on loss of focus, and on that transition the edit
\* buffer is the content the card set holds for the card and the content
\* shown in Viewing.
C16_CardEditStates ==
    [][\A i \in 1..Len(cards) :
          /\ (i \notin isEditing /\ i \in isEditing') =>
                (last'.op = "editClick" /\ last'.id = i)
          /\ (i \in isEditing /\ i \notin isEditing') =>
                /\ last'.op = "editBlur" /\ last'.id = i
                /\ editableContentOf(i)' = editableContentOf(i)
                /\ cards'[i].content = editableContentOf(i)]_vars

\* the cards a step changed
Changed == {j \in 1..Len(cards) : j > Len(cards') \/ cards'[j] # cards[j]}

\* C20: a card position update or a bring-to-front changes one card at most,
\* the card of the given id, and of it only the position (the z-value); it
\* adds and removes no card and leaves the transcript and the responding
\* indicator unchanged.
C20_CardUpdateFrame ==
    [][/\ (last'.op = "mouseMove" /\ pointer.mode = "cardDrag") =>
            /\ Len(cards') = Len(cards)
            /\ Cardinality(Changed) <= 1
            /\ \A j \in Changed :
                  /\ cards[j].id = view.cards[pointer.card].id
                  /\ cards'[j] = [cards[j] EXCEPT !.position = cards'[j].position]
            /\ messages' = messages /\ isTyping' = isTyping
       /\ last'.op = "bringToFront" =>
            /\ Len(cards') = Len(cards)
            /\ Cardinality(Changed) <= 1
            /\ \A j \in Changed :
                  /\ cards[j].id = last'.id
                  /\ cards'[j] = [cards[j] EXCEPT !.zIndex = cards'[j].zIndex]
            /\ messages' = messages /\ isTyping' = isTyping]_vars

\* C17: once mounted, the chat panel's dimensions change only by a pointer
\* move between a press on the resize handle and the next release, and a
\* release always ends the resize session.
C17_ResizeOnlyInSession ==
    /\ [][(mounted /\ dimensions' # dimensions) =>
              (last'.op = "mouseMove" /\ pointer.mode = "resize")]_vars
    /\ [][last'.op = "mouseUp" => (~isResizing' /\ ~view'.isResizing)]_vars

\* the panel was resized, the pointer released and then moved again
C17_Witness ==
    /\ last.op = "mouseMove" /\ pointer.mode = "idle" /\ pointer.moves = 2
    /\ dimensions.width > 320

IsPrefix(s, t) == Len(s) <= Len(t) /\ SubSeq(t, 1, Len(s)) = s

\* C18: once the greeting is set at mount, every operation leaves the
\* transcript it found as a prefix of the transcript it leaves.
C18_TranscriptAppendOnly ==
    [][mounted => IsPrefix(messages, messages')]_vars

\* a response with two message items was appended while the user message of
\* a later submission was already in the transcript
C18_Witness ==
    /\ last.op = "resolve" /\ last.id = 1
    /\ Len(messages) >= 5
    /\ origin[Len(messages)] = <<1, 2>>
    /\ \E k \in 1..Len(messages) : origin[k] = <<2, 0>>

\* C19: the jump-to-latest button is shown exactly when the view is more
\* than 100 pixels above the bottom of the transcript.
C19_JumpToLatestShown ==
    (mounted /\ variant = 2) => (showScrollButton <=> fromBottom > 100)

\* C21: the z-counter never decreases, and in every state it is strictly
\* greater than the z-value of every card.
C21_CounterAboveCards ==
    /\ [](\A i \in 1..Len(cards) : cards[i].zIndex < zIndexCounter)
    /\ [][zIndexCounter' >= zIndexCounter]_vars

\* a card was brought to front with a z-value that had been assigned before,
\* while a submission is in flight
C21_Witness ==
    /\ last.op = "bringToFront" /\ zDup
    /\ Len(cards) = 2
    /\ inflight # {}

\* the transcript places of the message items of submission s's response
ResponseBlock(s) == {k \in 1..Len(messages) : origin[k][1] = s /\ origin[k][2] > 0}

\* C22: the message items of one response stand in the transcript as one
\* contiguous block: no item of another response and no user message stands
\* between two of them.
C22_ResponseBlocksContiguous ==
    \A s \in 1..nSub :
        \A j, k \in ResponseBlock(s) :
            \A m \in j..k : m \in ResponseBlock(s)

\* the two message items of the first response were appended after the user
\* message of the second submission, whose call is still awaited
C22_Witness ==
    /\ \E k \in 1..(Len(messages) - 2) :
          /\ origin[k] = <<2, 0>>
          /\ origin[k + 1] = <<1, 1>>
          /\ origin[k + 2] = <<1, 2>>
    /\ \E c \in inflight : c.sub = 2

TypeOK ==
    /\ variant \in {1, 2}
    /\ mounted \in BOOLEAN
    /\ isTyping \in BOOLEAN
    /\ zIndexCounter \in 1..MaxZ
    /\ Len(origin) = Len(messages)

====
